---- MODULE Spec2Model ----
(***************************************************************************)
(* Sales pipeline: the merged table built by data_cleaning.run, the        *)
(* cleaner clean_combined, the csv hand-over (outputs/sales_master.csv)    *)
(* and the KPI functions of analysis.py.                                   *)
(*                                                                         *)
(* Spec     : merged rows -> clean_combined -> analysis.run                *)
(* SpecLoad : source files -> load_online / load_retail / load_wholesale   *)
(*            -> concat -> clean_combined                                  *)
(* SpecKpi  : a clean sales_master.csv -> one grouped KPI function         *)
(*                                                                         *)
(* Tables are sequences of rows (records).  A nullable cell is a sequence  *)
(* of length 0 (NaN / NaT) or 1 (the value), so isna(x) is x = <<>>.       *)
(* A date is the triple <<year, month, day>>.  Revenue is an integer       *)
(* amount; inputs are even amounts so that the midpoint of two of them is  *)
(* again an integer.  Rational results (the percentile, percentages) are   *)
(* kept as scaled integers; the scale is named where it is used.           *)
(***************************************************************************)
EXTENDS Integers, Sequences, FiniteSets, TLC

VARIABLES
    pc,            \* "csv" -> "raw" -> "cleaned" -> "analysed"
    csv_files,     \* data/sales_online.csv, sales_retail.csv, sales_wholesale.csv
    merged,        \* df_all of data_cleaning.run: the concatenated sources
    df_dated,      \* clean_combined: df after step 1
    df_filled,     \* clean_combined: df after step 2
    upper_cap,     \* clean_combined: upper_cap, scaled by QuantileDen, or NaN
    df_capped,     \* clean_combined: df after step 3
    df_dedup,      \* clean_combined: df after step 4
    df_clean,      \* clean_combined: the returned table
    counts,        \* clean_combined: the counts it logs
    sales_master,  \* outputs/sales_master.csv (<<>> until written)
    results,       \* outputs/analysis_results.json (<<>> until written)
    raised,        \* the exception the run ended with ("" when none)
    kpi            \* the KPI function last called on its own, and its return value

vars == <<pc, csv_files, kpi, merged, df_dated, df_filled, upper_cap, df_capped, df_dedup,
          df_clean, counts, sales_master, results, raised>>

---------------------------------------------------------------------------
(* Bounds and input domains *)

MaxRows == 3

MaxCsvRows == 4

NaN == <<>>
NaT == <<>>

isna(x) == x = <<>>
val(x) == x[1]

TransactionIds == <<"A", "B", "C", "D", "E">>

\* every transaction has one calendar date; a copy of it may have lost it
DateOf(id) ==
    CASE id = "A" -> <<2023, 8, 15>>
      [] id = "B" -> <<2023, 12, 5>>
      [] id = "C" -> <<2023, 3, 31>>
      [] id = "D" -> <<2023, 11, 20>>
      [] OTHER    -> <<2023, 8, 3>>

\* the category names, in the order groupby sorts its keys
SortedCategories == <<"Books", "Clothing", "Electronics", "Sports">>

\* the categories of the rows the cleaner is given
Categories == {"Books", "Electronics"}

RevenueValues == {0, 4}

\* the fields of a transaction that no step of the cleaner reads; unit_price
\* is in cents, discount_pct in hundredths
Details(id) ==
    CASE id = "A" -> [product_name |-> "Laptop", region |-> "North",
                      channel |-> "Online", quantity |-> 1,
                      unit_price |-> 400, payment_method |-> "PayPal",
                      customer_id |-> "CUST-1", discount_pct |-> 0]
      [] id = "B" -> [product_name |-> "Jeans", region |-> "South",
                      channel |-> "Retail Store", quantity |-> 2,
                      unit_price |-> 200, payment_method |-> "Cash",
                      customer_id |-> "CUST-2", discount_pct |-> 5]
      [] id = "C" -> [product_name |-> "Cookbook", region |-> "North",
                      channel |-> "Wholesale", quantity |-> 4,
                      unit_price |-> 100, payment_method |-> "Bank Transfer",
                      customer_id |-> "CUST-1", discount_pct |-> 10]
      [] id = "D" -> [product_name |-> "Puzzle", region |-> "East",
                      channel |-> "Online", quantity |-> 1,
                      unit_price |-> 400, payment_method |-> "Credit Card",
                      customer_id |-> "CUST-3", discount_pct |-> 0]
      [] OTHER    -> [product_name |-> "Lamp", region |-> "West",
                      channel |-> "Direct Sales", quantity |-> 3,
                      unit_price |-> 300, payment_method |-> "Debit Card",
                      customer_id |-> "CUST-2", discount_pct |-> 20]

\* ids are issued in order of first appearance: a row either opens the
\* next unused id or repeats the id of an earlier row
UsedIds(t) == {t[i].transaction_id : i \in 1..Len(t)}

FreshId(t) == TransactionIds[Cardinality(UsedIds(t)) + 1]

\* the first row of t carrying id
FirstRow(t, id) ==
    t[CHOOSE i \in 1..Len(t) :
        /\ t[i].transaction_id = id
        /\ \A j \in 1..(i - 1) : t[j].transaction_id # id]

\* the rows that can follow table t in the merged table; idx is the
\* RangeIndex given by concat(ignore_index=True)
RowsAfter(t) ==
    \* a new transaction
    {[idx |-> Len(t), transaction_id |-> FreshId(t), date |-> DateOf(FreshId(t)),
      category |-> c, revenue |-> r, is_returned |-> f]
     @@ Details(FreshId(t)) :
        c \in Categories,
        r \in {NaN} \cup {<<v>> : v \in RevenueValues}, f \in {0, 1}}
    \cup
    \* a second export of an earlier transaction: same category and return
    \* flag, its own revenue cell
    {[idx |-> Len(t), transaction_id |-> id, date |-> DateOf(id),
      category |-> FirstRow(t, id).category, revenue |-> r,
      is_returned |-> FirstRow(t, id).is_returned]
     @@ Details(id) :
        id \in UsedIds(t),
        r \in {NaN} \cup {<<v>> : v \in RevenueValues}}
    \cup
    \* a new transaction whose date did not parse: step 1 drops the row
    \* before any other field is read, so only its category varies
    {[idx |-> Len(t), transaction_id |-> FreshId(t), date |-> NaT,
      category |-> c, revenue |-> <<4>>, is_returned |-> 0]
     @@ Details(FreshId(t)) :
        c \in Categories}

---------------------------------------------------------------------------
(* Helpers: pandas primitives on tables *)

\* df[mask] is SelectSeq(df, mask); mask.sum() is the length of that selection

RECURSIVE Insert(_, _)
Insert(s, v) ==
    IF s = <<>> THEN <<v>>
    ELSE IF v <= Head(s) THEN <<v>> \o s
         ELSE <<Head(s)>> \o Insert(Tail(s), v)

\* the non-null revenues of t, ascending (what median and quantile work on)
RECURSIVE SortedRevenue(_)
SortedRevenue(t) ==
    IF t = <<>> THEN <<>>
    ELSE IF isna(Head(t).revenue) THEN SortedRevenue(Tail(t))
         ELSE Insert(SortedRevenue(Tail(t)), val(Head(t).revenue))

\* a median that takes the lower middle value of an even count
MedianLowerMiddle(t) ==
    LET x == SortedRevenue(t)
        n == Len(x)
    IN  IF n = 0 THEN NaN ELSE <<x[(n + 1) \div 2]>>

\* Series.median(): NaN skipped; NaN for an all-NaN (or empty) series
Median(t) ==
    LET x == SortedRevenue(t)
        n == Len(x)
    IN  IF n = 0 THEN NaN
        ELSE IF n % 2 = 1 THEN <<x[(n + 1) \div 2]>>
             ELSE <<(x[n \div 2] + x[n \div 2 + 1]) \div 2>>

QuantileNum == 999
QuantileDen == 1000

\* Series.quantile(0.999), linear interpolation, scaled by QuantileDen;
\* NaN skipped; NaN when no value is left
Quantile(t) ==
    LET x == SortedRevenue(t)
        n == Len(x)
        pos == (n - 1) * QuantileNum
        lo == pos \div QuantileDen
        fr == pos % QuantileDen
    IN  IF n = 0 THEN NaN
        ELSE IF fr = 0 THEN <<QuantileDen * x[lo + 1]>>
             ELSE <<QuantileDen * x[lo + 1] + fr * (x[lo + 2] - x[lo + 1])>>

---------------------------------------------------------------------------
(* The source files and the adapters load_online, load_retail, load_wholesale *)

MaxRawRows == 2

Sources == <<"online", "retail", "wholesale">>

\* the date format each adapter passes to pd.to_datetime
DateFormat(src) ==
    CASE src = "online" -> "%Y-%m-%d"
      [] src = "retail" -> "%d/%m/%Y"
      [] OTHER          -> "%Y/%m/%d"

\* date.strftime(format): a date text is its digit groups and separators,
\* e.g. <<2023, "-", 8, "-", 15>> for 2023-08-15
strftime(date, format) ==
    CASE format = "%Y-%m-%d" -> <<date[1], "-", date[2], "-", date[3]>>
      [] format = "%d/%m/%Y" -> <<date[3], "/", date[2], "/", date[1]>>
      [] OTHER               -> <<date[1], "/", date[2], "/", date[3]>>

\* the region texts of the model, each with its characters
Chars(s) ==
    CASE s = "north"   -> <<"n", "o", "r", "t", "h">>
      [] s = "North"   -> <<"N", "o", "r", "t", "h">>
      [] s = "NORTH"   -> <<"N", "O", "R", "T", "H">>
      [] s = "SOUTH"   -> <<"S", "O", "U", "T", "H">>
      [] s = "South"   -> <<"S", "o", "u", "t", "h">>
      [] s = "west"    -> <<"w", "e", "s", "t">>
      [] s = "West"    -> <<"W", "e", "s", "t">>
      [] s = "WEST"    -> <<"W", "E", "S", "T">>
      [] s = "East"    -> <<"E", "a", "s", "t">>
      [] s = "EAST"    -> <<"E", "A", "S", "T">>
      [] s = "Central" -> <<"C", "e", "n", "t", "r", "a", "l">>
      [] s = "CENTRAL" -> <<"C", "E", "N", "T", "R", "A", "L">>

RegionTexts ==
    {"north", "North", "NORTH", "SOUTH", "South", "west", "West", "WEST",
     "East", "EAST", "Central", "CENTRAL"}

Text(cs) == CHOOSE s \in RegionTexts : Chars(s) = cs

\* the raw rows a source file can hold for transaction id: the date written
\* in the source's own format, in the format of another source, or left
\* empty; the region in any casing
RawCells(src, id) ==
    {[date |-> strftime(DateOf(id), DateFormat(src)), region |-> g] :
        g \in {"north", "SOUTH", "West"}}
    \cup
    {[date |-> strftime(DateOf(id),
                        IF src = "online" THEN "%d/%m/%Y" ELSE "%Y-%m-%d"),
      region |-> "North"],
     [date |-> NaN, region |-> "North"]}

RawRow(src, id, c) ==
    CASE src = "online" ->
            [order_id |-> id, date |-> c.date,
             product |-> Details(id).product_name,
             category |-> SortedCategories[1], region |-> c.region,
             channel |-> "Online", quantity |-> Details(id).quantity,
             unit_price |-> Details(id).unit_price, revenue |-> <<4>>,
             payment_method |-> Details(id).payment_method,
             customer_id |-> Details(id).customer_id,
             discount_pct |-> Details(id).discount_pct, return_flag |-> 0]
      [] src = "retail" ->
            [transaction_id |-> id, sale_date |-> c.date,
             item_name |-> Details(id).product_name,
             product_cat |-> SortedCategories[1], store_region |-> c.region,
             sales_channel |-> "Retail Store",
             qty_sold |-> Details(id).quantity,
             price_each |-> Details(id).unit_price, total_revenue |-> <<4>>,
             payment |-> Details(id).payment_method,
             cust_id |-> Details(id).customer_id,
             discount |-> Details(id).discount_pct, returned |-> 0]
      [] OTHER ->
            [ref_number |-> id, invoice_date |-> c.date,
             product_name |-> Details(id).product_name,
             category |-> SortedCategories[1], territory |-> c.region,
             channel |-> "Wholesale", units |-> Details(id).quantity,
             unit_cost |-> Details(id).unit_price, gross_revenue |-> <<4>>,
             payment_type |-> Details(id).payment_method,
             account_id |-> Details(id).customer_id,
             promo_rate |-> Details(id).discount_pct, is_returned |-> 0]

\* any file may use any id: the files are written by three systems
RawRows(src) ==
    UNION {{RawRow(src, id, c) : c \in RawCells(src, id)} : id \in {"A", "B"}}

ONLINE_COLUMNS ==
    [order_id |-> "transaction_id", date |-> "date",
     product |-> "product_name", category |-> "category",
     region |-> "region", channel |-> "channel", quantity |-> "quantity",
     unit_price |-> "unit_price", revenue |-> "revenue",
     payment_method |-> "payment_method", customer_id |-> "customer_id",
     discount_pct |-> "discount_pct", return_flag |-> "is_returned"]

RETAIL_COLUMNS ==
    [transaction_id |-> "transaction_id", sale_date |-> "date",
     item_name |-> "product_name", product_cat |-> "category",
     store_region |-> "region", sales_channel |-> "channel",
     qty_sold |-> "quantity", price_each |-> "unit_price",
     total_revenue |-> "revenue", payment |-> "payment_method",
     cust_id |-> "customer_id", discount |-> "discount_pct",
     returned |-> "is_returned"]

WHOLESALE_COLUMNS ==
    [ref_number |-> "transaction_id", invoice_date |-> "date",
     product_name |-> "product_name", category |-> "category",
     territory |-> "region", channel |-> "channel", units |-> "quantity",
     unit_cost |-> "unit_price", gross_revenue |-> "revenue",
     payment_type |-> "payment_method", account_id |-> "customer_id",
     promo_rate |-> "discount_pct", is_returned |-> "is_returned"]

Columns(src) ==
    CASE src = "online" -> ONLINE_COLUMNS
      [] src = "retail" -> RETAIL_COLUMNS
      [] OTHER          -> WHOLESALE_COLUMNS

\* df.rename(columns=...): a column the mapping does not name keeps its name
NewName(c, columns) == IF c \in DOMAIN columns THEN columns[c] ELSE c

rename(t, columns) ==
    [i \in 1..Len(t) |->
        [k \in {NewName(c, columns) : c \in DOMAIN t[i]} |->
            t[i][CHOOSE c \in DOMAIN t[i] : NewName(c, columns) = k]]]

IsLeap(y) == y % 4 = 0 /\ (y % 100 # 0 \/ y % 400 = 0)

DaysInMonth(y, m) ==
    IF m = 2 THEN (IF IsLeap(y) THEN 29 ELSE 28)
    ELSE IF m \in {4, 6, 9, 11} THEN 30 ELSE 31

\* the year, month and day groups a format reads from a text of five parts
DateFrom(s, format) ==
    IF format = "%d/%m/%Y" THEN <<s[5], s[3], s[1]>> ELSE <<s[1], s[3], s[5]>>

\* strptime accepts the text: the separators are those of the format, the
\* year has four digits, month and day exist
Parses(s, format) ==
    /\ Len(s) = 5
    /\ s[2] = (IF format = "%Y-%m-%d" THEN "-" ELSE "/")
    /\ s[4] = s[2]
    /\ DateFrom(s, format)[1] \in 1000..9999
    /\ DateFrom(s, format)[2] \in 1..12
    /\ DateFrom(s, format)[3] \in
          1..DaysInMonth(DateFrom(s, format)[1], DateFrom(s, format)[2])

\* one cell of pd.to_datetime(..., errors='coerce'); an empty cell is NaT
to_datetime(s, format) ==
    IF isna(s) \/ ~Parses(s, format) THEN NaT ELSE DateFrom(s, format)

\* pd.to_datetime(column, format=...) with the default errors='raise'
\* raises ValueError when a cell does not parse
Raises(t, format) ==
    \E i \in 1..Len(t) : ~isna(t[i].date) /\ ~Parses(t[i].date, format)

Lowercase ==
    <<"a", "b", "c", "d", "e", "f", "g", "h", "i", "j", "k", "l", "m",
      "n", "o", "p", "q", "r", "s", "t", "u", "v", "w", "x", "y", "z">>

Uppercase ==
    <<"A", "B", "C", "D", "E", "F", "G", "H", "I", "J", "K", "L", "M",
      "N", "O", "P", "Q", "R", "S", "T", "U", "V", "W", "X", "Y", "Z">>

IsLetter(ch) == \E i \in 1..26 : Lowercase[i] = ch \/ Uppercase[i] = ch

ToUpper(ch) ==
    IF \E i \in 1..26 : Lowercase[i] = ch
    THEN Uppercase[CHOOSE i \in 1..26 : Lowercase[i] = ch] ELSE ch

ToLower(ch) ==
    IF \E i \in 1..26 : Uppercase[i] = ch
    THEN Lowercase[CHOOSE i \in 1..26 : Uppercase[i] = ch] ELSE ch

\* str.upper()
upper(s) == Text([i \in 1..Len(Chars(s)) |-> ToUpper(Chars(s)[i])])

\* str.title(): a letter that starts a word is upper-cased, every other
\* letter lower-cased
title(s) ==
    Text([i \in 1..Len(Chars(s)) |->
             IF i = 1 \/ ~IsLetter(Chars(s)[i - 1])
             THEN ToUpper(Chars(s)[i]) ELSE ToLower(Chars(s)[i])])

\* an adapter returns its table, or raises
load_online(csv) ==
    LET df == rename(csv, ONLINE_COLUMNS)
    IN  IF Raises(df, "%Y-%m-%d") THEN [raised |-> "ValueError", df |-> <<>>]
        ELSE [raised |-> "",
              df |-> [i \in 1..Len(df) |->
                         [df[i] EXCEPT !.date = to_datetime(@, "%Y-%m-%d")]]]

load_retail(csv) ==
    LET df == rename(csv, RETAIL_COLUMNS)
    IN  [raised |-> "",
         df |-> [i \in 1..Len(df) |->
                    [df[i] EXCEPT !.date = to_datetime(@, "%d/%m/%Y"),
                                  !.region = title(@)]]]

load_wholesale(csv) ==
    LET df == rename(csv, WHOLESALE_COLUMNS)
    IN  IF Raises(df, "%Y/%m/%d") THEN [raised |-> "ValueError", df |-> <<>>]
        ELSE [raised |-> "",
              df |-> [i \in 1..Len(df) |->
                         [df[i] EXCEPT !.date = to_datetime(@, "%Y/%m/%d")]]]

\* pd.concat(frames, ignore_index=True): a fresh RangeIndex
concat(t) == [i \in 1..Len(t) |-> [idx |-> i - 1] @@ t[i]]

---------------------------------------------------------------------------
(* clean_combined, step by step *)

\* step 1: df.dropna(subset=['date'])
DropNullDates(t) == SelectSeq(t, LAMBDA r : ~isna(r.date))

\* the group of r in groupby('category')
CategoryGroup(t, r) == SelectSeq(t, LAMBDA q : q.category = r.category)

\* the gap filled with 0 instead of the median
FillZero(t, r) == <<0>>

\* x.fillna(x.median()) on the group of r
FillValue(t, r) == Median(CategoryGroup(t, r))

\* every revenue of a group replaced by the median of the group
FillRevenueAll(t) ==
    IF Len(SelectSeq(t, LAMBDA r : isna(r.revenue))) = 0 THEN t
    ELSE [i \in 1..Len(t) |-> [t[i] EXCEPT !.revenue = FillValue(t, t[i])]]

\* step 2: groupby('category')['revenue'].transform(fillna(median)),
\* run only when some revenue is missing
FillRevenue(t) ==
    IF Len(SelectSeq(t, LAMBDA r : isna(r.revenue))) = 0 THEN t
    ELSE [i \in 1..Len(t) |->
            IF isna(t[i].revenue)
            THEN [t[i] EXCEPT !.revenue = FillValue(t, t[i])]
            ELSE t[i]]

\* revenue > upper_cap (False against NaN on either side)
AboveCap(r, cap) ==
    ~isna(r.revenue) /\ ~isna(cap) /\ val(r.revenue) * QuantileDen > val(cap)

\* the filter written as ~(revenue > upper_cap)
NotAboveCap(r, cap) == ~AboveCap(r, cap)

\* revenue <= upper_cap (False against NaN on either side)
WithinCap(r, cap) ==
    ~isna(r.revenue) /\ ~isna(cap) /\ val(r.revenue) * QuantileDen <= val(cap)

\* step 3: df[df['revenue'] <= upper_cap]
DropOutliers(t, cap) == SelectSeq(t, LAMBDA r : WithinCap(r, cap))

\* drop_duplicates(keep='last'): a row is dropped when a later one has its id
RECURSIVE DropDuplicatesLast(_, _)
DropDuplicatesLast(t, seen) ==
    IF t = <<>> THEN <<>>
    ELSE IF \E i \in 1..Len(Tail(t)) :
                Tail(t)[i].transaction_id = Head(t).transaction_id
         THEN DropDuplicatesLast(Tail(t), seen)
         ELSE <<Head(t)>> \o DropDuplicatesLast(Tail(t), seen)

\* df.duplicated(subset=['transaction_id']): an earlier row has the same id
RECURSIVE DropDuplicatesFrom(_, _)
DropDuplicatesFrom(t, seen) ==
    IF t = <<>> THEN <<>>
    ELSE IF Head(t).transaction_id \in seen
         THEN DropDuplicatesFrom(Tail(t), seen)
         ELSE <<Head(t)>> \o
              DropDuplicatesFrom(Tail(t), seen \cup {Head(t).transaction_id})

\* step 4: df.drop_duplicates(subset=['transaction_id'])
DropDuplicates(t) == DropDuplicatesFrom(t, {})

Duplicated(t) ==
    Cardinality({i \in 1..Len(t) :
        \E j \in 1..(i - 1) : t[j].transaction_id = t[i].transaction_id})

\* df['is_returned'].sum()
RECURSIVE SumReturned(_)
SumReturned(t) ==
    IF t = <<>> THEN 0 ELSE Head(t).is_returned + SumReturned(Tail(t))

\* step 5: df[df['is_returned'] == 0]
DropReturns(t) == SelectSeq(t, LAMBDA r : r.is_returned = 0)

MonthAbbr ==
    <<"Jan", "Feb", "Mar", "Apr", "May", "Jun",
      "Jul", "Aug", "Sep", "Oct", "Nov", "Dec">>

\* a quarter taken as month \div 3 + 1
QuarterOffByOne(date) == date[2] \div 3 + 1

\* dt.quarter
Quarter(date) == (date[2] - 1) \div 3 + 1

\* step 6: year, month, quarter, month_name
AddDerived(t) ==
    [i \in 1..Len(t) |->
        t[i] @@ [year |-> t[i].date[1], month |-> t[i].date[2],
                 quarter |-> Quarter(t[i].date),
                 month_name |-> MonthAbbr[t[i].date[2]]]]

\* DataFrame.to_csv(index=False): the index is not written
to_csv(t) ==
    [i \in 1..Len(t) |-> [f \in DOMAIN t[i] \ {"idx"} |-> t[i][f]]]

---------------------------------------------------------------------------
(* analysis.py *)

\* pd.read_csv(DATA_PATH, parse_dates=['date']): a fresh RangeIndex
load_data(csv) ==
    [i \in 1..Len(csv) |-> [idx |-> i - 1] @@ csv[i]]

\* Series.sum(): NaN skipped, 0 for an empty series
RECURSIVE SumRevenue(_)
SumRevenue(t) ==
    IF t = <<>> THEN 0
    ELSE (IF isna(Head(t).revenue) THEN 0 ELSE val(Head(t).revenue))
         + SumRevenue(Tail(t))

\* sum of squares of the non-null revenues
RECURSIVE SumSquares(_)
SumSquares(t) ==
    IF t = <<>> THEN 0
    ELSE (IF isna(Head(t).revenue) THEN 0
          ELSE val(Head(t).revenue) * val(Head(t).revenue))
         + SumSquares(Tail(t))

\* round(n / d): the nearest integer, ties to the even one (d # 0)
RoundDiv(n, d) ==
    LET nn == IF d < 0 THEN -n ELSE n
        dd == IF d < 0 THEN -d ELSE d
        q == nn \div dd
        r == nn - q * dd
    IN  IF 2 * r < dd THEN q
        ELSE IF 2 * r > dd THEN q + 1
             ELSE IF q % 2 = 0 THEN q ELSE q + 1

\* avg_order_value is in hundredths of the revenue unit
revenue_summary(df) ==
    [total_revenue |-> SumRevenue(df),
     total_orders |-> Len(df),
     avg_order_value |->
        IF Len(SelectSeq(df, LAMBDA r : ~isna(r.revenue))) = 0 THEN NaN
        ELSE <<RoundDiv(SumRevenue(df) * 100,
                        Len(SelectSeq(df, LAMBDA r : ~isna(r.revenue))))>>]

InQuarter(df, q) == SelectSeq(df, LAMBDA r : r.quarter = q)

\* df.groupby('quarter')['revenue'].sum().reset_index(): one record per
\* quarter present, ascending
RECURSIVE QuarterlyRevenueFrom(_, _)
QuarterlyRevenueFrom(df, q) ==
    IF q > 4 THEN <<>>
    ELSE (IF InQuarter(df, q) = <<>> THEN <<>>
          ELSE <<[quarter |-> q, revenue |-> SumRevenue(InQuarter(df, q))]>>)
         \o QuarterlyRevenueFrom(df, q + 1)

RECURSIVE Q4MonthlyFrom(_, _)
Q4MonthlyFrom(df, m) ==
    IF m > 12 THEN <<>>
    ELSE (IF SelectSeq(df, LAMBDA r : r.quarter = 4 /\ r.month = m) = <<>> THEN <<>>
          ELSE <<[month |-> m,
                  revenue |-> SumRevenue(
                      SelectSeq(df, LAMBDA r : r.quarter = 4 /\ r.month = m))]>>)
         \o Q4MonthlyFrom(df, m + 1)

\* q4_vs_q3_growth_pct is in tenths of a percent.  values[0] of an empty
\* selection raises IndexError; dividing the Python float by 0.0 raises
\* ZeroDivisionError.
quarterly_analysis(df) ==
    LET q_rev == QuarterlyRevenueFrom(df, 1)
        q3 == SelectSeq(q_rev, LAMBDA g : g.quarter = 3)
        q4 == SelectSeq(q_rev, LAMBDA g : g.quarter = 4)
    IN  IF q3 = <<>> THEN [raised |-> "IndexError"]
        ELSE IF q4 = <<>> THEN [raised |-> "IndexError"]
        ELSE IF q3[1].revenue = 0 THEN [raised |-> "ZeroDivisionError"]
        ELSE [raised |-> "",
              quarterly_revenue |-> q_rev,
              q3_revenue |-> q3[1].revenue,
              q4_revenue |-> q4[1].revenue,
              q4_vs_q3_growth_pct |->
                  RoundDiv((q4[1].revenue - q3[1].revenue) * 1000, q3[1].revenue),
              q4_monthly_revenue |-> Q4MonthlyFrom(df, 1)]

\* the infinite float, x / 0 for x # 0 in a Series division: a cell that
\* holds no number, told from NaN by its length
Inf == <<1, 0>>

\* a cell that holds a number: neither NaN nor Inf
isfinite(x) == Len(x) = 1

\* the region and channel names, in the order groupby sorts its keys
SortedRegions ==
    <<"Central", "East", "North", "SOUTH", "South", "West", "north", "west">>

SortedChannels == <<"Direct Sales", "Online", "Retail Store", "Wholesale">>

\* the keys of a groupby: the values of the column that occur, sorted
PresentKeys(df, column, sorted) ==
    SelectSeq(sorted, LAMBDA k : \E i \in 1..Len(df) : df[i][column] = k)

GroupRows(df, column, k) == SelectSeq(df, LAMBDA r : r[column] = k)

RECURSIVE SumQuantity(_)
SumQuantity(t) ==
    IF t = <<>> THEN 0 ELSE Head(t).quantity + SumQuantity(Tail(t))

\* Series.mean() of the revenue, rounded to 2 decimals: in hundredths
MeanRevenue(t) ==
    IF Len(SelectSeq(t, LAMBDA r : ~isna(r.revenue))) = 0 THEN NaN
    ELSE <<RoundDiv(SumRevenue(t) * 100,
                    Len(SelectSeq(t, LAMBDA r : ~isna(r.revenue))))>>

\* the totals of a group taken from its first row only
GroupTotalsFirst(g) ==
    [total_revenue |-> SumRevenue(<<g[1]>>), total_orders |-> 1]

\* ('revenue', 'sum') and ('transaction_id', 'count') of one group
GroupTotals(g) == [total_revenue |-> SumRevenue(g), total_orders |-> Len(g)]

\* the place of a record in a table sorted by total_revenue ascending
RECURSIVE InsertAscending(_, _)
InsertAscending(s, g) ==
    IF s = <<>> THEN <<g>>
    ELSE IF Head(s).total_revenue <= g.total_revenue
         THEN <<Head(s)>> \o InsertAscending(Tail(s), g)
         ELSE <<g>> \o s

\* sort_values('total_revenue', ascending=False), one record at a time:
\* after the records that are not smaller (ties keep the key order)
RECURSIVE InsertDescending(_, _)
InsertDescending(s, g) ==
    IF s = <<>> THEN <<g>>
    ELSE IF Head(s).total_revenue >= g.total_revenue
         THEN <<Head(s)>> \o InsertDescending(Tail(s), g)
         ELSE <<g>> \o s

RECURSIVE SortByRevenue(_)
SortByRevenue(t) ==
    IF t = <<>> THEN <<>>
    ELSE InsertDescending(SortByRevenue(SubSeq(t, 1, Len(t) - 1)), t[Len(t)])

RECURSIVE SumTotalRevenue(_)
SumTotalRevenue(t) ==
    IF t = <<>> THEN 0 ELSE Head(t).total_revenue + SumTotalRevenue(Tail(t))

\* a share rounded to the whole percent
ShareWholePercent(part, total) ==
    IF total = 0 THEN (IF part = 0 THEN NaN ELSE Inf)
    ELSE <<RoundDiv(part * 100, total) * 10>>

\* round(part / total * 100, 1), in tenths of a percent; a Series division
\* by 0 gives nan for 0 / 0 and inf otherwise
Share(part, total) ==
    IF total = 0 THEN (IF part = 0 THEN NaN ELSE Inf)
    ELSE <<RoundDiv(part * 1000, total)>>

\* DataFrame.head(3)
head(t) == SubSeq(t, 1, IF Len(t) < 3 THEN Len(t) ELSE 3)

\* avg_order_value and avg_quantity are in hundredths
category_analysis(df) ==
    LET keys == PresentKeys(df, "category", SortedCategories)
        grouped == [i \in 1..Len(keys) |->
                       LET g == GroupRows(df, "category", keys[i])
                       IN  [category |-> keys[i]] @@ GroupTotals(g) @@
                           [avg_order_value |-> MeanRevenue(g),
                            avg_quantity |-> <<RoundDiv(SumQuantity(g) * 100, Len(g))>>]]
        sorted == SortByRevenue(grouped)
        cat == [i \in 1..Len(sorted) |->
                   sorted[i] @@
                   [revenue_share_pct |->
                       Share(sorted[i].total_revenue, SumTotalRevenue(sorted))]]
    IN  [all_categories |-> cat, top3_categories |-> head(cat)]

region_analysis(df) ==
    LET keys == PresentKeys(df, "region", SortedRegions)
        grouped == [i \in 1..Len(keys) |->
                       [region |-> keys[i]] @@
                       GroupTotals(GroupRows(df, "region", keys[i]))]
    IN  [region_revenue |-> SortByRevenue(grouped)]

channel_analysis(df) ==
    LET keys == PresentKeys(df, "channel", SortedChannels)
        grouped == [i \in 1..Len(keys) |->
                       [channel |-> keys[i]] @@
                       GroupTotals(GroupRows(df, "channel", keys[i]))]
        sorted == SortByRevenue(grouped)
    IN  [channel_revenue |->
            [i \in 1..Len(sorted) |->
                sorted[i] @@
                [share_pct |->
                    Share(sorted[i].total_revenue, SumTotalRevenue(sorted))]]]

\* Series.pct_change() * 100, rounded to 2 decimals: in hundredths of a
\* percent; a previous value of 0 gives nan for 0 / 0 and inf otherwise
PctChange(prev, cur) ==
    IF prev = 0 THEN (IF cur = 0 THEN NaN ELSE Inf)
    ELSE <<RoundDiv((cur - prev) * 10000, prev)>>

\* groupby(['month', 'month_name']): one record per month present, by month
monthly_trend(df) ==
    LET keys == SelectSeq([m \in 1..12 |-> m],
                          LAMBDA m : \E i \in 1..Len(df) : df[i].month = m)
        monthly == [i \in 1..Len(keys) |->
                       LET g == GroupRows(df, "month", keys[i])
                       IN  [month |-> keys[i], month_name |-> g[1].month_name,
                            revenue |-> SumRevenue(g), orders |-> Len(g)]]
    IN  [monthly_trend |->
            [i \in 1..Len(monthly) |->
                monthly[i] @@
                [mom_growth_pct |->
                    IF i = 1 THEN NaN
                    ELSE PctChange(monthly[i - 1].revenue, monthly[i].revenue)]]]

\* round(returns / total * 100, 2), in hundredths of a percent; 0 / 0 on
\* numpy scalars is nan
RatePct(returns, total) ==
    IF total = 0 THEN NaN ELSE <<RoundDiv(returns * 10000, total)>>

InCategory(df, c) == SelectSeq(df, LAMBDA r : r.category = c)

RECURSIVE ReturnsByCategoryFrom(_, _)
ReturnsByCategoryFrom(df, k) ==
    IF k > Len(SortedCategories) THEN <<>>
    ELSE LET g == InCategory(df, SortedCategories[k])
         IN  (IF g = <<>> THEN <<>>
              ELSE <<[category |-> SortedCategories[k],
                      returns |-> SumReturned(g), total |-> Len(g),
                      return_rate_pct |-> RatePct(SumReturned(g), Len(g))]>>)
             \o ReturnsByCategoryFrom(df, k + 1)

return_rate(df_all) ==
    [overall_return_rate_pct |-> RatePct(SumReturned(df_all), Len(df_all)),
     by_category |-> ReturnsByCategoryFrom(df_all, 1)]

\* n * n * (population variance) of the revenues of t
VarTimesN2(t) == Len(t) * SumSquares(t) - SumRevenue(t) * SumRevenue(t)

\* the two means are equal
SameMean(a, b) == SumRevenue(a) * Len(b) = SumRevenue(b) * Len(a)

\* the pooled variance of the two groups is zero
ZeroPooled(a, b) ==
    (Len(a) - 1) * VarTimesN2(a) = 0 /\ (Len(b) - 1) * VarTimesN2(b) = 0

\* Cohen's d of statistical_tests, as the kind of float it is: the mean of
\* an empty array is nan, 0.0 / 0 is nan, x / 0.0 is inf for x # 0
CohensD(a, b) ==
    IF Len(a) = 0 \/ Len(b) = 0 THEN "nan"
    ELSE IF Len(a) + Len(b) - 2 = 0 THEN "nan"
    ELSE IF ZeroPooled(a, b) THEN (IF SameMean(a, b) THEN "nan" ELSE "inf")
    ELSE "finite"

\* the statistic of scipy.stats.ttest_ind(a, b), as the kind of float it
\* is.  With one observation in one group and two or more in the other the
\* outcome depends on the scipy release (the sample variance of one
\* observation is nan; later releases drop that term), so both are possible.
TTestKinds(a, b) ==
    IF Len(a) = 0 \/ Len(b) = 0 THEN {"nan"}
    ELSE IF Len(a) + Len(b) - 2 = 0 THEN {"nan"}
    ELSE LET defined == IF ZeroPooled(a, b)
                        THEN (IF SameMean(a, b) THEN "nan" ELSE "inf")
                        ELSE "finite"
         IN  IF Len(a) = 1 \/ Len(b) = 1 THEN {"nan", defined} ELSE {defined}

\* the two-tailed p-value is nan exactly when the statistic is
PValueKind(t_kind) == IF t_kind = "nan" THEN "nan" ELSE "finite"

\* statistical_tests never raises: it returns whatever the floats are
statistical_tests(df, t_kind) ==
    [t_statistic |-> t_kind,
     p_value |-> PValueKind(t_kind),
     cohens_d |-> CohensD(InQuarter(df, 4),
                          SelectSeq(df, LAMBDA r : r.quarter # 4))]

---------------------------------------------------------------------------
(* State machine *)

Init ==
    /\ pc = "raw"
    /\ csv_files = [online |-> <<>>, retail |-> <<>>, wholesale |-> <<>>]
    /\ kpi = <<>>
    /\ merged = <<>>
    /\ df_dated = <<>>
    /\ df_filled = <<>>
    /\ upper_cap = NaN
    /\ df_capped = <<>>
    /\ df_dedup = <<>>
    /\ df_clean = <<>>
    /\ counts = [initial_len |-> 0, missing_rev |-> 0, outliers |-> 0,
                 dupes |-> 0, returns |-> 0]
    /\ sales_master = <<>>
    /\ results = <<>>
    /\ raised = ""

\* data_cleaning.run: clean_combined(df_all), then to_csv
clean ==
    /\ pc = "raw"
    /\ LET d1 == DropNullDates(merged)
           d2 == FillRevenue(d1)
           cap == Quantile(d2)
           d3 == DropOutliers(d2, cap)
           d4 == DropDuplicates(d3)
           d5 == AddDerived(DropReturns(d4))
       IN  /\ df_dated' = d1
           /\ df_filled' = d2
           /\ upper_cap' = cap
           /\ df_capped' = d3
           /\ df_dedup' = d4
           /\ df_clean' = d5
           /\ counts' = [initial_len |-> Len(merged),
                         missing_rev |-> Len(SelectSeq(d1, LAMBDA r : isna(r.revenue))),
                         outliers |-> Len(SelectSeq(d2, LAMBDA r : AboveCap(r, cap))),
                         dupes |-> Duplicated(d3),
                         returns |-> SumReturned(d4)]
           /\ sales_master' = <<to_csv(d5)>>
    /\ pc' = "cleaned"
    /\ UNCHANGED <<csv_files, kpi, merged, results, raised>>

\* data_cleaning.run, loading: one more row of the concatenated sources
read_row ==
    /\ pc = "raw"
    /\ Len(merged) < MaxRows
    /\ \E r \in RowsAfter(merged) : merged' = Append(merged, r)
    /\ UNCHANGED <<pc, csv_files, kpi, df_dated, df_filled, upper_cap, df_capped,
                   df_dedup, df_clean, counts, sales_master, results, raised>>

\* analysis.run: load_data, the KPIs in order, then json.dump; an exception
\* of a KPI function ends the run before anything is written.  df_all is
\* df.copy() of the loaded clean table.  Of the KPI functions only
\* quarterly_analysis can raise.
analyse ==
    /\ pc = "cleaned"
    /\ LET df == load_data(sales_master[1])
           df_all == df
           quarterly == quarterly_analysis(df)
       IN  IF quarterly.raised # ""
           THEN /\ raised' = quarterly.raised
                /\ results' = <<>>
           ELSE \E t_kind \in TTestKinds(InQuarter(df, 4),
                                         SelectSeq(df, LAMBDA r : r.quarter # 4)) :
                /\ raised' = ""
                /\ results' = <<[summary |-> revenue_summary(df),
                                 quarterly |-> quarterly,
                                 categories |-> category_analysis(df),
                                 regions |-> region_analysis(df),
                                 channels |-> channel_analysis(df),
                                 monthly |-> monthly_trend(df),
                                 returns |-> return_rate(df_all),
                                 stats_tests |-> statistical_tests(df, t_kind)]>>
    /\ pc' = "analysed"
    /\ UNCHANGED <<csv_files, kpi, merged, df_dated, df_filled, upper_cap,
                   df_capped, df_dedup, df_clean, counts, sales_master>>

\* one more row in one of the three source files
write_csv_row ==
    /\ pc = "csv"
    /\ Len(csv_files.online) + Len(csv_files.retail)
         + Len(csv_files.wholesale) < MaxRawRows
    /\ \E i \in 1..Len(Sources) : \E r \in RawRows(Sources[i]) :
          csv_files' = [csv_files EXCEPT ![Sources[i]] = Append(@, r)]
    /\ UNCHANGED <<pc, kpi, merged, df_dated, df_filled, upper_cap, df_capped,
                   df_dedup, df_clean, counts, sales_master, results, raised>>

\* data_cleaning.run, loading: the three adapters in turn, then concat; an
\* exception of an adapter ends the run
load ==
    /\ pc = "csv"
    /\ LET df_online == load_online(csv_files.online)
           df_retail == load_retail(csv_files.retail)
           df_wholesale == load_wholesale(csv_files.wholesale)
       IN  IF df_online.raised # ""
           THEN raised' = df_online.raised /\ merged' = <<>> /\ pc' = "aborted"
           ELSE IF df_wholesale.raised # ""
           THEN raised' = df_wholesale.raised /\ merged' = <<>> /\ pc' = "aborted"
           ELSE /\ raised' = ""
                /\ merged' = concat(df_online.df \o df_retail.df \o df_wholesale.df)
                /\ pc' = "raw"
    /\ UNCHANGED <<csv_files, kpi, df_dated, df_filled, upper_cap, df_capped,
                   df_dedup, df_clean, counts, sales_master, results>>

\* the pipeline from the source files on
InitLoad ==
    /\ pc = "csv"
    /\ csv_files = [online |-> <<>>, retail |-> <<>>, wholesale |-> <<>>]
    /\ kpi = <<>>
    /\ merged = <<>>
    /\ df_dated = <<>>
    /\ df_filled = <<>>
    /\ upper_cap = NaN
    /\ df_capped = <<>>
    /\ df_dedup = <<>>
    /\ df_clean = <<>>
    /\ counts = [initial_len |-> 0, missing_rev |-> 0, outliers |-> 0,
                 dupes |-> 0, returns |-> 0]
    /\ sales_master = <<>>
    /\ results = <<>>
    /\ raised = ""

NextLoad == write_csv_row \/ load \/ clean

SpecLoad == InitLoad /\ [][NextLoad]_vars

\* the rows that can follow table csv in a clean sales_master.csv: a new
\* transaction with a date and a revenue that is not a return, as
\* clean_combined writes it
CleanRowsAfter(csv) ==
    {to_csv(AddDerived(
        <<[idx |-> Len(csv), transaction_id |-> TransactionIds[Len(csv) + 1],
           date |-> DateOf(TransactionIds[Len(csv) + 1]),
           category |-> c, revenue |-> <<v>>, is_returned |-> 0]
          @@ Details(TransactionIds[Len(csv) + 1])>>))[1] :
        c \in {SortedCategories[i] : i \in 1..Len(SortedCategories)},
        v \in RevenueValues}

write_clean_row ==
    /\ pc = "clean_csv"
    /\ Len(sales_master[1]) < MaxCsvRows
    /\ \E r \in CleanRowsAfter(sales_master[1]) :
          sales_master' = <<Append(sales_master[1], r)>>
    /\ UNCHANGED <<pc, csv_files, kpi, merged, df_dated, df_filled, upper_cap,
                   df_capped, df_dedup, df_clean, counts, results, raised>>

\* a grouped KPI function called on its own on the loaded clean table
category_call ==
    /\ pc = "clean_csv"
    /\ kpi' = <<[fn |-> "category_analysis",
                 out |-> category_analysis(load_data(sales_master[1]))]>>
    /\ pc' = "called"
    /\ UNCHANGED <<csv_files, merged, df_dated, df_filled, upper_cap, df_capped,
                   df_dedup, df_clean, counts, sales_master, results, raised>>

region_call ==
    /\ pc = "clean_csv"
    /\ kpi' = <<[fn |-> "region_analysis",
                 out |-> region_analysis(load_data(sales_master[1]))]>>
    /\ pc' = "called"
    /\ UNCHANGED <<csv_files, merged, df_dated, df_filled, upper_cap, df_capped,
                   df_dedup, df_clean, counts, sales_master, results, raised>>

channel_call ==
    /\ pc = "clean_csv"
    /\ kpi' = <<[fn |-> "channel_analysis",
                 out |-> channel_analysis(load_data(sales_master[1]))]>>
    /\ pc' = "called"
    /\ UNCHANGED <<csv_files, merged, df_dated, df_filled, upper_cap, df_capped,
                   df_dedup, df_clean, counts, sales_master, results, raised>>

monthly_call ==
    /\ pc = "clean_csv"
    /\ kpi' = <<[fn |-> "monthly_trend",
                 out |-> monthly_trend(load_data(sales_master[1]))]>>
    /\ pc' = "called"
    /\ UNCHANGED <<csv_files, merged, df_dated, df_filled, upper_cap, df_capped,
                   df_dedup, df_clean, counts, sales_master, results, raised>>

\* the grouped KPI functions on clean tables
InitKpi ==
    /\ pc = "clean_csv"
    /\ csv_files = [online |-> <<>>, retail |-> <<>>, wholesale |-> <<>>]
    /\ kpi = <<>>
    /\ merged = <<>>
    /\ df_dated = <<>>
    /\ df_filled = <<>>
    /\ upper_cap = NaN
    /\ df_capped = <<>>
    /\ df_dedup = <<>>
    /\ df_clean = <<>>
    /\ counts = [initial_len |-> 0, missing_rev |-> 0, outliers |-> 0,
                 dupes |-> 0, returns |-> 0]
    /\ sales_master = << <<>> >>
    /\ results = <<>>
    /\ raised = ""

NextKpi ==
    write_clean_row \/ category_call \/ region_call \/ channel_call
    \/ monthly_call

SpecKpi == InitKpi /\ [][NextKpi]_vars

Next == read_row \/ clean \/ analyse

Spec == Init /\ [][Next]_vars

---------------------------------------------------------------------------
(* Properties *)

Cleaned == pc # "raw"

Analysed == pc = "analysed"

\* the merged row a later row stems from
Origin(r) == merged[r.idx + 1]

\* C1: every row of the clean table has a non-null date, is_returned = 0
\* and a quarter in 1..4 equal to ceil(month / 3) of its date, and no two
\* rows of the clean table share a transaction_id.
C1_CleanRowInvariants ==
    Cleaned =>
        /\ \A i \in 1..Len(df_clean) :
            /\ ~isna(df_clean[i].date)
            /\ df_clean[i].date = Origin(df_clean[i]).date
            /\ df_clean[i].is_returned = 0
            /\ df_clean[i].quarter \in 1..4
            /\ df_clean[i].month = df_clean[i].date[2]
            /\ df_clean[i].quarter = (df_clean[i].month + 2) \div 3
        /\ \A i, j \in 1..Len(df_clean) :
            i # j => df_clean[i].transaction_id # df_clean[j].transaction_id

\* a run that dropped a duplicate and a return and kept a row of the
\* last month of a quarter
C1_Witness ==
    /\ Cleaned
    /\ counts.dupes >= 1
    /\ counts.returns >= 1
    /\ \E i \in 1..Len(df_clean) : df_clean[i].month % 3 = 0

\* C2: the clean table has as many rows as the merged table minus the
\* rows dropped for a null date, minus the rows counted as outliers, minus
\* the rows counted as duplicates, minus the rows counted as returned.
C2_RowCountAccounting ==
    Cleaned =>
        Len(df_clean) = counts.initial_len
                        - (counts.initial_len - Len(df_dated))
                        - counts.outliers - counts.dupes - counts.returns

\* C3: the return-rate KPI is computed from the all-rows table (the table
\* after the duplicate filter): returned rows / rows x 100, hence above 0
\* whenever a returned transaction survives the date and duplicate filters.
C3_ReturnRateFromAllRows ==
    (Analysed /\ results # <<>>) =>
        /\ results[1].returns.overall_return_rate_pct
               = RatePct(SumReturned(df_dedup), Len(df_dedup))
        /\ SumReturned(df_dedup) > 0 =>
               val(results[1].returns.overall_return_rate_pct) > 0

\* C4: no row of the clean table has a null revenue, also when some
\* category has only null revenue values.
C4_NoNullRevenue ==
    Cleaned => \A i \in 1..Len(df_clean) : ~isna(df_clean[i].revenue)

\* a category was left unfilled by step 2 and the clean table is not empty
C4_Witness ==
    /\ Cleaned
    /\ \E i \in 1..Len(df_filled) : isna(df_filled[i].revenue)
    /\ Len(df_clean) >= 1

\* C5 as stated: every row of the clean table has revenue > 0.
C5_RevenuePositive ==
    Cleaned =>
        \A i \in 1..Len(df_clean) :
            ~isna(df_clean[i].revenue) /\ val(df_clean[i].revenue) > 0

AllMergedRevenuePositive ==
    \A j \in 1..Len(merged) :
        ~isna(merged[j].revenue) => val(merged[j].revenue) > 0

\* C5 amended: when every non-null revenue of the merged table is > 0,
\* every row of the clean table has revenue > 0; the cleaner has no step
\* that removes rows of zero or negative revenue.
C5_PositiveInPositiveOut ==
    (Cleaned /\ AllMergedRevenuePositive) =>
        \A i \in 1..Len(df_clean) :
            ~isna(df_clean[i].revenue) /\ val(df_clean[i].revenue) > 0

\* an all-positive merged table whose clean table holds an imputed row
C5_Witness ==
    /\ Cleaned
    /\ AllMergedRevenuePositive
    /\ \E i \in 1..Len(df_clean) : isna(Origin(df_clean[i]).revenue)

\* the merged rows step 2 takes the median of for category c: non-null
\* date, same category, non-null revenue
MedianGroup(c) ==
    {j \in 1..Len(merged) :
        /\ ~isna(merged[j].date)
        /\ merged[j].category = c
        /\ ~isna(merged[j].revenue)}

\* the k-th smallest revenue among the merged rows G
KthRevenue(G, k) ==
    CHOOSE v \in {val(merged[j].revenue) : j \in G} :
        /\ Cardinality({j \in G : val(merged[j].revenue) < v}) < k
        /\ Cardinality({j \in G : val(merged[j].revenue) <= v}) >= k

\* C6: step 2 gives every null revenue whose category has a non-null
\* revenue the median of the non-null revenues of the rows of that category
\* that passed the null-date filter (rows dropped by later steps included),
\* and leaves every non-null revenue unchanged.
C6_Imputation ==
    Cleaned =>
        /\ Len(df_filled) = Len(df_dated)
        /\ \A i \in 1..Len(df_filled) :
            LET r == df_filled[i]
                o == Origin(r)
                G == MedianGroup(o.category)
                n == Cardinality(G)
            IN  /\ r.idx = df_dated[i].idx
                /\ ~isna(o.revenue) => r.revenue = o.revenue
                /\ (isna(o.revenue) /\ G # {}) =>
                       /\ ~isna(r.revenue)
                       /\ 2 * val(r.revenue)
                              = KthRevenue(G, (n + 1) \div 2)
                                + KthRevenue(G, (n + 2) \div 2)

\* a null revenue filled with the midpoint of two different revenues, one
\* of them of a row that a later step drops
C6_Witness ==
    /\ Cleaned
    /\ \E i \in 1..Len(df_filled) :
        /\ isna(Origin(df_filled[i]).revenue)
        /\ Cardinality(MedianGroup(df_filled[i].category)) = 2
        /\ \E j, k \in MedianGroup(df_filled[i].category) :
            /\ val(merged[j].revenue) < val(df_filled[i].revenue)
            /\ val(df_filled[i].revenue) < val(merged[k].revenue)
            /\ \A m \in 1..Len(df_clean) : df_clean[m].idx # merged[k].idx

\* r is still a row of table t
Kept(r, t) == \E i \in 1..Len(t) : t[i].idx = r.idx

\* C7: the threshold is the 99.9th percentile of revenue after imputation;
\* step 3 drops a row if and only if its revenue is strictly greater than
\* the threshold; every row of the clean table is at or below it.
C7_OutlierFilter ==
    Cleaned =>
        /\ upper_cap = Quantile(df_filled)
        /\ \A i \in 1..Len(df_filled) :
            ~Kept(df_filled[i], df_capped) <=> AboveCap(df_filled[i], upper_cap)
        /\ \A i \in 1..Len(df_clean) : WithinCap(df_clean[i], upper_cap)

\* C8: of the rows that reach step 4, exactly one row per transaction_id
\* survives, the earliest in merge order, and the survivors keep their
\* relative order.
C8_DuplicateFilter ==
    Cleaned =>
        /\ \A i \in 1..Len(df_capped) :
            Cardinality({k \in 1..Len(df_dedup) :
                df_dedup[k].transaction_id = df_capped[i].transaction_id}) = 1
        /\ \A k \in 1..Len(df_dedup) :
            /\ \E i \in 1..Len(df_capped) : df_capped[i] = df_dedup[k]
            /\ \A i \in 1..Len(df_capped) :
                df_capped[i].transaction_id = df_dedup[k].transaction_id
                    => df_dedup[k].idx <= df_capped[i].idx
        /\ \A k, m \in 1..Len(df_dedup) :
            k < m => df_dedup[k].idx < df_dedup[m].idx

\* two rows of one id with different revenues reached step 4, and a row of
\* another id follows the dropped one
C8_Witness ==
    /\ Cleaned
    /\ \E i, j \in 1..Len(df_capped) :
        /\ i < j
        /\ df_capped[i].transaction_id = df_capped[j].transaction_id
        /\ df_capped[i].revenue # df_capped[j].revenue
        /\ \E k \in 1..Len(df_dedup) : df_dedup[k].idx > df_capped[j].idx

\* the table analysis.run works on
Loaded == load_data(sales_master[1])

\* C9: quarterly_analysis returns (Q4 - Q3) / Q3 x 100 rounded to one
\* decimal whenever Q3 revenue is non-zero, and fails with an error, never
\* giving NaN or an infinite value, when Q3 revenue is zero or absent.
C9_GrowthGuard ==
    Analysed =>
        LET q3 == SumRevenue(InQuarter(Loaded, 3))
            q4 == SumRevenue(InQuarter(Loaded, 4))
        IN  /\ q3 # 0 =>
                /\ raised = ""
                /\ results # <<>>
                /\ results[1].quarterly.q4_vs_q3_growth_pct
                       = RoundDiv((q4 - q3) * 1000, q3)
            /\ q3 = 0 => (raised # "" /\ results = <<>>)

\* a group of the test has fewer than 2 observations or zero variance
Degenerate(a, b) ==
    \/ Len(a) < 2
    \/ Len(b) < 2
    \/ VarTimesN2(a) = 0
    \/ VarTimesN2(b) = 0

\* C10: on a degenerate sample statistical_tests fails with an error; it
\* never returns a t_statistic, p_value or cohens_d that is NaN or
\* otherwise undefined.
C10_DegenerateGuard ==
    (Analysed /\ results # <<>>) =>
        /\ ~Degenerate(InQuarter(Loaded, 4),
                       SelectSeq(Loaded, LAMBDA r : r.quarter # 4))
        /\ results[1].stats_tests.t_statistic = "finite"
        /\ results[1].stats_tests.p_value = "finite"
        /\ results[1].stats_tests.cohens_d = "finite"

\* C11: when a KPI computation of analysis.run fails on a statistical
\* degeneracy, only that KPI is lost: the result document is still written
\* and holds the revenue summary, the category, region, channel and monthly
\* records and the return rate.
C11_PartialFailure ==
    (Analysed /\ raised # "") =>
        /\ Len(results) = 1
        /\ results[1].summary = revenue_summary(Loaded)
        /\ results[1].categories = category_analysis(Loaded)
        /\ results[1].regions = region_analysis(Loaded)
        /\ results[1].channels = channel_analysis(Loaded)
        /\ results[1].monthly = monthly_trend(Loaded)
        /\ results[1].returns = return_rate(Loaded)

\* the adapters returned and their outputs were concatenated
Concatenated == pc \in {"raw", "cleaned"}

\* where the rows of a source start in the merged table
Offset(src) ==
    CASE src = "online" -> 0
      [] src = "retail" -> Len(csv_files.online)
      [] OTHER          -> Len(csv_files.online) + Len(csv_files.retail)

\* the source whose adapter produced the i-th merged row
SourceOf(i) ==
    IF i <= Len(csv_files.online) THEN "online"
    ELSE IF i <= Len(csv_files.online) + Len(csv_files.retail) THEN "retail"
         ELSE "wholesale"

DateColumn(src) ==
    CHOOSE c \in DOMAIN Columns(src) : Columns(src)[c] = "date"

\* C12: for each of the three adapters, a row whose date text does not parse
\* in the adapter's format does not make the adapter raise; it yields a
\* canonical row with a null date, which step 1 of the cleaner then drops.
C12_BadDateYieldsNull ==
    \A k \in 1..Len(Sources) : \A i \in 1..Len(csv_files[Sources[k]]) :
        LET src == Sources[k]
            text == csv_files[src][i][DateColumn(src)]
        IN  (pc # "csv" /\ ~isna(text) /\ ~Parses(text, DateFormat(src))) =>
                /\ raised = ""
                /\ isna(merged[Offset(src) + i].date)
                /\ pc = "cleaned" =>
                      \A j \in 1..Len(df_dated) :
                          df_dated[j].idx # Offset(src) + i - 1

\* C13: two merged rows that come from different sources never carry the
\* same transaction_id, so drop_duplicates never drops a row because of a
\* row of another source.
C13_NoCrossSourceCollision ==
    Concatenated =>
        /\ \A i, j \in 1..Len(merged) :
              SourceOf(i) # SourceOf(j) =>
                  merged[i].transaction_id # merged[j].transaction_id
        /\ pc = "cleaned" =>
              \A i, j \in 1..Len(df_capped) :
                  (/\ df_capped[i].transaction_id = df_capped[j].transaction_id
                   /\ Kept(df_capped[i], df_dedup)
                   /\ ~Kept(df_capped[j], df_dedup)) =>
                      SourceOf(df_capped[i].idx + 1) = SourceOf(df_capped[j].idx + 1)

\* the title-cased spelling of a region name
TitleCased(s) ==
    CASE s \in {"north", "North", "NORTH"} -> "North"
      [] s \in {"SOUTH", "South"}          -> "South"
      [] s \in {"west", "West", "WEST"}    -> "West"
      [] OTHER                             -> s

\* C14: each adapter returns the rows of its file in their order, every
\* field other than the date carried over unchanged under its canonical
\* name; only load_retail rewrites the region, to title case, which leaves a
\* title-cased region as it is.
C14_AdapterFrame ==
    Concatenated =>
        /\ Len(merged) = Len(csv_files.online) + Len(csv_files.retail)
                           + Len(csv_files.wholesale)
        /\ \A k \in 1..Len(Sources) : \A i \in 1..Len(csv_files[Sources[k]]) :
              LET src == Sources[k]
                  raw == csv_files[src][i]
                  out == merged[Offset(src) + i]
              IN  /\ DOMAIN out =
                        {Columns(src)[c] : c \in DOMAIN raw} \cup {"idx"}
                  /\ \A c \in DOMAIN raw :
                        (/\ Columns(src)[c] # "date"
                         /\ ~(src = "retail" /\ Columns(src)[c] = "region")) =>
                            out[Columns(src)[c]] = raw[c]
                  /\ src = "retail" =>
                        /\ out.region = TitleCased(raw.store_region)
                        /\ title(out.region) = out.region
                  /\ src = "online" => out.region = raw.region
                  /\ src = "wholesale" => out.region = raw.territory

\* a retail row written "SOUTH" next to an online row written "north"
C14_Witness ==
    /\ Concatenated
    /\ \E i \in 1..Len(csv_files.retail) :
          csv_files.retail[i].store_region = "SOUTH"
    /\ \E i \in 1..Len(csv_files.online) :
          csv_files.online[i].region = "north"

\* the clean table a KPI function was called on, and what it returned
Called(fn) == pc = "called" /\ kpi[1].fn = fn

\* the sum of the shares that are numbers, in tenths of a percent
RECURSIVE SumShares(_)
SumShares(t) ==
    IF t = <<>> THEN 0
    ELSE (IF isfinite(Head(t).revenue_share_pct)
          THEN val(Head(t).revenue_share_pct) ELSE 0)
         + SumShares(Tail(t))

Within(x, target, tolerance) ==
    x - target < tolerance /\ target - x < tolerance

\* C15: for any clean table with at least one category, the
\* revenue_share_pct values of category_analysis sum to 100 within 0.5.
C15_ShareSum ==
    (Called("category_analysis") /\ Len(kpi[1].out.all_categories) > 0) =>
        Within(SumShares(kpi[1].out.all_categories), 1000, 5)

\* C15, amended: for any clean table whose total revenue is not zero, every
\* revenue_share_pct is a number and the shares sum to 100 within 0.5.
C15_ShareSumNonZeroTotal ==
    (Called("category_analysis") /\ SumRevenue(Loaded) # 0) =>
        /\ \A i \in 1..Len(kpi[1].out.all_categories) :
              isfinite(kpi[1].out.all_categories[i].revenue_share_pct)
        /\ Within(SumShares(kpi[1].out.all_categories), 1000, 5)

\* three categories of equal revenue: each share is rounded down to 33.3
C15_Witness ==
    /\ Called("category_analysis")
    /\ Len(kpi[1].out.all_categories) = 3
    /\ SumShares(kpi[1].out.all_categories) = 999

RECURSIVE SumTotalOrders(_)
SumTotalOrders(t) ==
    IF t = <<>> THEN 0 ELSE Head(t).total_orders + SumTotalOrders(Tail(t))

\* C16: the total_revenue of the channel records of channel_analysis adds up
\* to the total revenue of the table (revenue_summary's total) and their
\* total_orders to its row count; every row is in exactly one channel record.
C16_ChannelCoverage ==
    Called("channel_analysis") =>
        /\ SumTotalRevenue(kpi[1].out.channel_revenue)
             = revenue_summary(Loaded).total_revenue
        /\ SumTotalOrders(kpi[1].out.channel_revenue) = Len(Loaded)
        /\ \A i \in 1..Len(Loaded) :
              Cardinality({j \in 1..Len(kpi[1].out.channel_revenue) :
                             kpi[1].out.channel_revenue[j].channel
                               = Loaded[i].channel}) = 1

\* several channels, one of them with two orders
C16_Witness ==
    /\ Called("channel_analysis")
    /\ Len(kpi[1].out.channel_revenue) >= 3
    /\ \E j \in 1..Len(kpi[1].out.channel_revenue) :
          /\ kpi[1].out.channel_revenue[j].total_orders = 2
          /\ kpi[1].out.channel_revenue[j].total_revenue = 8

\* C17: monthly_trend returns at most 12 records, one per month present,
\* by month ascending; mom_growth_pct is not a number for the first record
\* and for no other: every later record carries the finite growth against
\* the revenue of the record before it.
C17_MonthlyTrend ==
    Called("monthly_trend") =>
        LET m == kpi[1].out.monthly_trend
        IN  /\ Len(m) <= 12
            /\ {m[i].month : i \in 1..Len(m)}
                 = {Loaded[i].month : i \in 1..Len(Loaded)}
            /\ \A i \in 2..Len(m) : m[i - 1].month < m[i].month
            /\ Len(m) > 0 => isna(m[1].mom_growth_pct)
            /\ \A i \in 2..Len(m) :
                  /\ isfinite(m[i].mom_growth_pct)
                  /\ val(m[i].mom_growth_pct)
                       = RoundDiv((m[i].revenue - m[i - 1].revenue) * 10000,
                                  m[i - 1].revenue)

NonIncreasing(t) ==
    \A i \in 2..Len(t) : t[i - 1].total_revenue >= t[i].total_revenue

\* C20: the records of category_analysis, region_analysis and
\* channel_analysis are in non-increasing order of total_revenue, and
\* top3_categories is the first min(3, number of categories) records of
\* all_categories, so no category outside the top 3 has more revenue than
\* one inside.
C20_SortedTop3 ==
    /\ Called("region_analysis") => NonIncreasing(kpi[1].out.region_revenue)
    /\ Called("channel_analysis") => NonIncreasing(kpi[1].out.channel_revenue)
    /\ Called("category_analysis") =>
          LET all == kpi[1].out.all_categories
              top3 == kpi[1].out.top3_categories
          IN  /\ NonIncreasing(all)
              /\ Len(top3) = (IF Len(all) < 3 THEN Len(all) ELSE 3)
              /\ \A i \in 1..Len(top3) : top3[i] = all[i]
              /\ \A i \in 1..Len(top3) : \A j \in (Len(top3) + 1)..Len(all) :
                    top3[i].total_revenue >= all[j].total_revenue

\* four categories; the one groupby lists first has the least revenue and is
\* left out of the top 3
C20_Witness ==
    /\ Called("category_analysis")
    /\ Len(kpi[1].out.all_categories) = 4
    /\ Len(kpi[1].out.top3_categories) = 3
    /\ kpi[1].out.all_categories[4].category = SortedCategories[1]
    /\ kpi[1].out.all_categories[4].total_revenue
         < kpi[1].out.all_categories[3].total_revenue

\* C18: a row with a date and a null revenue whose category has no
\* non-null revenue among the dated rows keeps its null revenue in step 2
\* and is not removed for it: unless it is a duplicate or a return it is a
\* row of the clean table, with null revenue.
C18_UndefinedImputation ==
    Cleaned =>
        \A i \in 1..Len(df_dated) :
            (/\ isna(df_dated[i].revenue)
             /\ \A j \in 1..Len(df_dated) :
                   df_dated[j].category = df_dated[i].category =>
                       isna(df_dated[j].revenue)) =>
                /\ isna(df_filled[i].revenue)
                /\ (/\ df_dated[i].is_returned = 0
                    /\ \A j \in 1..Len(merged) :
                          merged[j].transaction_id = df_dated[i].transaction_id
                              => j = df_dated[i].idx + 1) =>
                      \E k \in 1..Len(df_clean) :
                          /\ df_clean[k].idx = df_dated[i].idx
                          /\ isna(df_clean[k].revenue)

\* the canonical fields the cleaner carries through
CarriedFields ==
    {"transaction_id", "date", "category", "region", "channel", "quantity",
     "unit_price", "is_returned"}

\* C19: every row of the clean table is one row of the merged table (no two
\* clean rows are the same merged row) with the same transaction_id, date,
\* category, region, channel, quantity, unit_price and is_returned, and the
\* same revenue when the merged revenue is not null; the only fields the
\* cleaner adds are the derived ones.
C19_CleanerFrame ==
    Cleaned =>
        /\ \A i \in 1..Len(df_clean) :
              /\ df_clean[i].idx \in 0..(Len(merged) - 1)
              /\ \A f \in CarriedFields :
                    df_clean[i][f] = Origin(df_clean[i])[f]
              /\ ~isna(Origin(df_clean[i]).revenue) =>
                    df_clean[i].revenue = Origin(df_clean[i]).revenue
              /\ DOMAIN df_clean[i] =
                    DOMAIN Origin(df_clean[i])
                      \cup {"year", "month", "quarter", "month_name"}
        /\ \A i, j \in 1..Len(df_clean) :
              df_clean[i].idx = df_clean[j].idx => i = j

\* a clean table with an imputed row next to a row that kept its revenue,
\* after a row was dropped
C19_Witness ==
    /\ Cleaned
    /\ Len(df_clean) < Len(merged)
    /\ \E i, j \in 1..Len(df_clean) :
          /\ isna(Origin(df_clean[i]).revenue)
          /\ ~isna(df_clean[i].revenue)
          /\ ~isna(Origin(df_clean[j]).revenue)
          /\ df_clean[j].category = df_clean[i].category
          /\ df_clean[j].revenue # df_clean[i].revenue
====
